---- MODULE Spec2Model ----
(***************************************************************************)
(* Job tracking and progress reporting of the video watermark service      *)
(* (src/main.py, src/utils.py).                                             *)
(*                                                                         *)
(* Threads of control in the program:                                      *)
(*   - the event loop thread.  It runs the request handlers (all async     *)
(*     def) and the background task process_video (async def as well, so   *)
(*     it runs on the event loop, and it contains no await: from its first *)
(*     line to the end of its finally block it occupies the event loop).   *)
(*   - one monitor_progress thread per job on the progress-monitored path. *)
(*   - one external ffmpeg process per job, writing to two OS pipes.       *)
(***************************************************************************)
EXTENDS Integers, Sequences, FiniteSets, TLC

(***************************************************************************)
(* Bounds of the model.                                                    *)
(***************************************************************************)
\* lines an ffmpeg run writes to its stdout at most
MaxLines == 3
\* chunks an ffmpeg run writes to its stderr at most
MaxErr == 3
\* capacity of an OS pipe, in lines (stdout) or chunks (stderr)
PipeCap == 2

(***************************************************************************)
(* Program constants.                                                      *)
(***************************************************************************)
StartedProgress == 5
ProgressSpan == 90
DoneProgress == 100
MicrosPerSecond == 1000000

\* the accepted submissions of a run; submission k is the k-th accepted one
Tasks == {1, 2}
\* the task ids: opaque values, of which only equality is ever used; one more
\* than there are submissions, so that some id is unknown in every state
Ids == {1, 2, 3}
\* task_id of a submission that has not called uuid4 yet
NoId == 0
None == "None"
\* output_path None, and the paths of the files
NoPath == <<>>
InputPath(k) == <<"uploads", k>>
\* returncode of a process that has not exited
NoCode == -1
NoResp == [kind |-> "none"]
\* last_line after a step that read no line
NoLine == [task |-> 0, line |-> [key |-> "", numeric |-> FALSE, val |-> 0]]

\* what get_file_duration can return: None, 0.0 seconds, 4.0 seconds
NoDuration == [some |-> FALSE, secs |-> 0]
Durations == {NoDuration, [some |-> TRUE, secs |-> 0], [some |-> TRUE, secs |-> 4]}
\* the lines ffmpeg can write: key=value, the value a number of microseconds
\* (numeric) or a text float() rejects, such as N/A
StdoutLines ==
    {[key |-> "out_time_ms", numeric |-> TRUE, val |-> -2000000],
     [key |-> "out_time_ms", numeric |-> TRUE, val |-> 0],
     [key |-> "out_time_ms", numeric |-> TRUE, val |-> 2000000],
     [key |-> "out_time_ms", numeric |-> TRUE, val |-> 4000000],
     [key |-> "out_time_ms", numeric |-> TRUE, val |-> 8000000],
     [key |-> "out_time_ms", numeric |-> FALSE, val |-> 0],
     [key |-> "frame", numeric |-> TRUE, val |-> 1]}
ContentTypes == {"video/mp4", "text/plain", None}
Extensions == {".mp4", ".txt"}
ExitCodes == {0, 1}

VARIABLES
    processing_status,  \* the job store: a function from the ids in it to records
    pc,                 \* per submission: where its handler / task stands
    task_id,            \* per submission: the id uuid4 gave it
    duration,           \* per task: the local variable duration
    procState,          \* per task: "none" | "running" | "exited"
    outTodo,            \* per task: stdout lines ffmpeg still has to write
    errTodo,            \* per task: stderr chunks ffmpeg still has to write
    returncode,         \* per task: exit code of its ffmpeg process
    stdout,             \* per task: number of unread lines in the stdout pipe
    stderr,             \* per task: number of unread chunks in the stderr pipe
    monitor,            \* per task: "none" | "running" | "ended"
    launches,           \* per task: ffmpeg processes launched for it
    uploads,            \* input files on disk, named by submission
    watermarked,        \* output files on disk, named by submission
    resp,               \* the response the last handler step returned
    last_line           \* the stdout line the last step read, and whose it was

vars == <<processing_status, pc, task_id, duration, procState, outTodo,
          errTodo, returncode, stdout, stderr, monitor, launches, uploads,
          watermarked, resp, last_line>>

procVars == <<procState, outTodo, errTodo, returncode, stdout, stderr>>

(***************************************************************************)
(* Pure functions.                                                         *)
(***************************************************************************)
Min(a, b) == IF a <= b THEN a ELSE b

\* Python's int() of a quotient: truncation toward zero
TruncDiv(a, b) == IF a >= 0 THEN a \div b ELSE -((-a) \div b)

\* main.py 204-206: e in microseconds, d in seconds
ProgressNoClamp(e, d) ==
    StartedProgress + TruncDiv(ProgressSpan * e, d * MicrosPerSecond)

Progress(e, d) ==
    StartedProgress + Min(ProgressSpan, TruncDiv(ProgressSpan * e, d * MicrosPerSecond))

\* main.py 183: "if duration:" is false for None and for 0.0
TruthyIsNotNone(d) == d.some

Truthy(d) == d.some /\ d.secs # 0

\* utils.py 88-91: the output path for an input path
OutputPath(input_path) == <<"watermarked", input_path[2]>>

\* main.py 73-76
AllowedExtensions == {".mp4", ".avi", ".mov", ".mkv", ".wmv", ".flv", ".webm"}
IsVideoType(ct) == ct \in {"video/mp4"}
RejectedEither(ct, ext) == ~IsVideoType(ct) \/ ext \notin AllowedExtensions

Rejected(ct, ext) == ~IsVideoType(ct) /\ ext \notin AllowedExtensions

\* main.py 86-92
InitialRecord == [status |-> "processing", progress |-> 0, output_path |-> NoPath]

\* dict.update: the keys of upd are set, the others kept
Update(rec, upd) ==
    [f \in DOMAIN rec \cup DOMAIN upd |-> IF f \in DOMAIN upd THEN upd[f] ELSE rec[f]]

\* main.py 224-228 and 236-240
CompletedUpdateNoProgress(rec, path) ==
    Update(rec, [status |-> "completed", output_path |-> path])

CompletedUpdateNoPath(rec, path) ==
    Update(rec, [status |-> "completed", progress |-> DoneProgress])

CompletedUpdate(rec, path) ==
    Update(rec, [status |-> "completed", progress |-> DoneProgress, output_path |-> path])

\* main.py 244-247
ErrorUpdateNoMsg(rec, msg) == Update(rec, [status |-> "error"])

ErrorUpdate(rec, msg) == Update(rec, [status |-> "error", error |-> msg])

\* main.py 181 and 207: one key of the record is assigned
SetProgressWholeRecord(rec, p) ==
    [status |-> "processing", progress |-> p, output_path |-> NoPath]

SetProgress(rec, p) == [rec EXCEPT !["progress"] = p]

\* main.py 230
FfmpegFailedMsgNoStderr(rc, err) == [what |-> "ffmpeg_exit", code |-> rc, stderr |-> 0]

FfmpegFailedMsg(rc, err) == [what |-> "ffmpeg_exit", code |-> rc, stderr |-> err]
\* str(e) of the exception subprocess.run(check=True) raises
CalledProcessMsg(rc) == [what |-> "called_process_error", code |-> rc, stderr |-> 0]
\* str(e) of the exception a failed launch raises
LaunchFailedMsg == [what |-> "launch_failed", code |-> -1, stderr |-> 0]

\* main.py 80: uuid4 returns an identifier not returned before.  Which one is
\* immaterial, ids being opaque: the least unused one stands for it, which
\* keeps runs that differ only in the names of the ids from being told apart.
UsedIds == {task_id[k] : k \in Tasks} \ {NoId}
uuid4Repeats(used) == 1

uuid4(used) == CHOOSE i \in Ids \ used : \A j \in Ids \ used : i <= j

\* the positions at which a process_video coroutine occupies the event loop:
\* it has no await, so all of them from its first line to the end of finally
\* the task starts over after an exception
AfterExceptionRetry == "probe"

\* main.py 241-251: the except clause falls through to the finally clause
AfterException == "cleanup"

BlockingPcsAwaitBeforeFinally == {"probe", "wait", "fallback"}

BlockingPcs == {"probe", "wait", "fallback", "cleanup"}
LoopFree == \A k \in Tasks : pc[k] \notin BlockingPcs

Terminal(s) == s \in {"completed", "error"}
HasRecord(i) == i \in DOMAIN processing_status

Init ==
    /\ processing_status = [i \in {} |-> InitialRecord]
    /\ pc = [k \in Tasks |-> "unsubmitted"]
    /\ task_id = [k \in Tasks |-> NoId]
    /\ duration = [k \in Tasks |-> NoDuration]
    /\ procState = [k \in Tasks |-> "none"]
    /\ outTodo = [k \in Tasks |-> 0]
    /\ errTodo = [k \in Tasks |-> 0]
    /\ returncode = [k \in Tasks |-> NoCode]
    /\ stdout = [k \in Tasks |-> 0]
    /\ stderr = [k \in Tasks |-> 0]
    /\ monitor = [k \in Tasks |-> "none"]
    /\ launches = [k \in Tasks |-> 0]
    /\ uploads = {}
    /\ watermarked = {}
    /\ resp = NoResp
    /\ last_line = NoLine

(***************************************************************************)
(* POST /watermark/video, up to its await (main.py 72-83): the upload is   *)
(* validated, uuid4 gives the task id, and the handler suspends in         *)
(* save_upload_file.  A rejected upload raises HTTPException(400).  resp   *)
(* keeps the request with the outcome; an accepted upload has no response  *)
(* yet, its handler being suspended in the save.                           *)
(***************************************************************************)
watermark_video_endpoint(ct, ext) ==
    /\ LoopFree
    /\ IF Rejected(ct, ext)
       THEN /\ resp' = [kind |-> "submit", code |-> 400,
                        content_type |-> ct, extension |-> ext]
            /\ UNCHANGED <<pc, task_id>>
       ELSE \E k \in Tasks :
              /\ pc[k] = "unsubmitted"
              /\ \A j \in Tasks : j < k => pc[j] # "unsubmitted"
              /\ pc' = [pc EXCEPT ![k] = "saving"]
              /\ task_id' = [task_id EXCEPT ![k] = uuid4(UsedIds)]
              /\ resp' = [kind |-> "accepted",
                          content_type |-> ct, extension |-> ext]
    /\ UNCHANGED <<processing_status, duration, procVars, monitor, launches,
                   uploads, watermarked>>
    /\ last_line' = NoLine

(***************************************************************************)
(* The rest of the handler, once the upload is saved (main.py 83-107): the *)
(* record is created, the task is scheduled, the task id is returned.      *)
(***************************************************************************)
UploadSaved(k) ==
    /\ LoopFree
    /\ pc[k] = "saving"
    /\ uploads' = uploads \cup {k}
    /\ processing_status' =
         [i \in DOMAIN processing_status \cup {task_id[k]} |->
            IF i = task_id[k] THEN InitialRecord ELSE processing_status[i]]
    /\ pc' = [pc EXCEPT ![k] = "scheduled"]
    /\ resp' = [kind |-> "submit", code |-> 200, task_id |-> task_id[k]]
    /\ UNCHANGED <<task_id, duration, procVars, monitor, launches, watermarked>>
    /\ last_line' = NoLine

(***************************************************************************)
(* The background task starts once the response is sent, on the event loop *)
(* (main.py 174-178): it calls get_file_duration, which blocks in          *)
(* subprocess.run until ffprobe exits.                                     *)
(***************************************************************************)
TaskStart(k) ==
    /\ LoopFree
    /\ pc[k] = "scheduled"
    /\ pc' = [pc EXCEPT ![k] = "probe"]
    /\ resp' = NoResp
    /\ UNCHANGED <<processing_status, task_id, duration, procVars, monitor,
                   launches, uploads, watermarked>>
    /\ last_line' = NoLine

(***************************************************************************)
(* get_file_duration returns d (main.py 178-214, 235).  Progress is set to *)
(* 5.  With a truthy duration ffmpeg is launched with both pipes and the   *)
(* monitor thread is started; otherwise utils.watermark_video launches it  *)
(* without pipes and blocks in subprocess.run.  A launch that fails raises *)
(* into the except clause (main.py 241-247).                               *)
(***************************************************************************)
ProbeReturn(k, d, launched, nOut, nErr) ==
    /\ pc[k] = "probe"
    /\ duration' = [duration EXCEPT ![k] = d]
    /\ resp' = NoResp
    /\ LET started == SetProgress(processing_status[task_id[k]], StartedProgress)
       IN IF ~launched
          THEN /\ processing_status' =
                    [processing_status EXCEPT
                       ![task_id[k]] = ErrorUpdate(started, LaunchFailedMsg)]
               /\ pc' = [pc EXCEPT ![k] = AfterException]
               /\ UNCHANGED <<procVars, monitor, launches>>
          ELSE /\ processing_status' =
                    [processing_status EXCEPT ![task_id[k]] = started]
               /\ procState' = [procState EXCEPT ![k] = "running"]
               /\ launches' = [launches EXCEPT ![k] = @ + 1]
               /\ UNCHANGED <<returncode, stdout, stderr>>
               /\ IF Truthy(d)
                  THEN /\ outTodo' = [outTodo EXCEPT ![k] = nOut]
                       /\ errTodo' = [errTodo EXCEPT ![k] = nErr]
                       /\ monitor' = [monitor EXCEPT ![k] = "running"]
                       /\ pc' = [pc EXCEPT ![k] = "wait"]
                  ELSE /\ UNCHANGED <<outTodo, errTodo, monitor>>
                       /\ pc' = [pc EXCEPT ![k] = "fallback"]
    /\ UNCHANGED <<task_id, uploads, watermarked>>
    /\ last_line' = NoLine

(***************************************************************************)
(* The locals of process_video (duration, process) are shared with the     *)
(* closure monitor_progress; they are gone once the coroutine has returned *)
(* and the monitor thread has ended, whichever comes last.                 *)
(***************************************************************************)
Dropped(locals, k, none) == [locals EXCEPT ![k] = none]

(***************************************************************************)
(* The ffmpeg process.  A write to a full pipe blocks; the process exits   *)
(* when it has written all it had to write.  Nothing reads a line before   *)
(* the monitor does, so the pipe holds the number of unread lines and the  *)
(* text of a line is drawn when the monitor reads it.                      *)
(***************************************************************************)
ProcWriteStdout(k) ==
    /\ procState[k] = "running"
    /\ outTodo[k] > 0
    /\ stdout[k] < PipeCap
    /\ stdout' = [stdout EXCEPT ![k] = @ + 1]
    /\ outTodo' = [outTodo EXCEPT ![k] = @ - 1]
    /\ resp' = NoResp
    /\ UNCHANGED <<processing_status, pc, task_id, duration, procState, errTodo,
                   returncode, stderr, monitor, launches, uploads, watermarked>>
    /\ last_line' = NoLine

ProcWriteStderr(k) ==
    /\ procState[k] = "running"
    /\ errTodo[k] > 0
    /\ stderr[k] < PipeCap
    /\ stderr' = [stderr EXCEPT ![k] = @ + 1]
    /\ errTodo' = [errTodo EXCEPT ![k] = @ - 1]
    /\ resp' = NoResp
    /\ UNCHANGED <<processing_status, pc, task_id, duration, procState, outTodo,
                   returncode, stdout, monitor, launches, uploads, watermarked>>
    /\ last_line' = NoLine

ProcExit(k, rc) ==
    /\ procState[k] = "running"
    /\ outTodo[k] = 0
    /\ errTodo[k] = 0
    /\ procState' = [procState EXCEPT ![k] = "exited"]
    /\ returncode' = [returncode EXCEPT ![k] = rc]
    /\ watermarked' = IF rc = 0 THEN watermarked \cup {k} ELSE watermarked
    /\ resp' = NoResp
    /\ UNCHANGED <<processing_status, pc, task_id, duration, outTodo, errTodo,
                   stdout, stderr, monitor, launches, uploads>>
    /\ last_line' = NoLine

(***************************************************************************)
(* monitor_progress (main.py 196-209): one pass of the for loop.  A line   *)
(* that starts with out_time_ms= and parses sets the progress; float()     *)
(* raising ValueError is swallowed; any other line is skipped.             *)
(***************************************************************************)
\* a marker line that does not parse counts as no time elapsed
LineEffectFloorOnBad(rec, line, d) ==
    IF line.key = "out_time_ms"
    THEN SetProgress(rec, IF line.numeric /\ d # 0
                          THEN Progress(line.val, d) ELSE StartedProgress)
    ELSE rec

\* main.py 201-209: what one line does to the record.  float() raising
\* ValueError and a division by a zero duration are swallowed.
LineEffect(rec, line, d) ==
    IF line.key = "out_time_ms" /\ line.numeric /\ d # 0
    THEN SetProgress(rec, Progress(line.val, d))
    ELSE rec

MonitorLine(k, line) ==
    /\ monitor[k] = "running"
    /\ stdout[k] > 0
    /\ processing_status' =
         [processing_status EXCEPT
            ![task_id[k]] = LineEffect(@, line, duration[k].secs)]
    /\ stdout' = [stdout EXCEPT ![k] = @ - 1]
    /\ resp' = NoResp
    /\ last_line' = [task |-> k, line |-> line]
    /\ UNCHANGED <<pc, task_id, duration, procState, outTodo, errTodo, returncode,
                   stderr, monitor, launches, uploads, watermarked>>

\* the for loop ends at end of file: the pipe is empty and its writer gone
MonitorEOF(k) ==
    /\ monitor[k] = "running"
    /\ stdout[k] = 0
    /\ procState[k] = "exited"
    /\ monitor' = [monitor EXCEPT ![k] = "ended"]
    /\ resp' = NoResp
    /\ IF pc[k] = "done"
       THEN /\ duration' = Dropped(duration, k, NoDuration)
            /\ returncode' = Dropped(returncode, k, NoCode)
       ELSE UNCHANGED <<duration, returncode>>
    /\ UNCHANGED <<processing_status, pc, task_id, procState, outTodo, errTodo,
                   stdout, stderr, launches, uploads, watermarked>>
    /\ last_line' = NoLine

(***************************************************************************)
(* process.wait() returns (main.py 217-232, 241-247): stderr is read to    *)
(* its end, and the exit code decides between the completed update and the *)
(* exception that the except clause turns into the error update.           *)
(***************************************************************************)
WaitReturn(k) ==
    /\ pc[k] = "wait"
    /\ procState[k] = "exited"
    /\ LET error_output == stderr[k]
           rec == processing_status[task_id[k]]
       IN processing_status' =
            [processing_status EXCEPT ![task_id[k]] =
               IF returncode[k] = 0
               THEN CompletedUpdate(rec, OutputPath(InputPath(k)))
               ELSE ErrorUpdate(rec, FfmpegFailedMsg(returncode[k], error_output))]
    /\ stderr' = [stderr EXCEPT ![k] = 0]
    /\ pc' = [pc EXCEPT ![k] = IF returncode[k] = 0 THEN "cleanup"
                                ELSE AfterException]
    /\ resp' = NoResp
    /\ UNCHANGED <<task_id, duration, procState, outTodo, errTodo, returncode,
                   stdout, monitor, launches, uploads, watermarked>>
    /\ last_line' = NoLine

(***************************************************************************)
(* utils.watermark_video returns or raises (main.py 235-247,               *)
(* utils.py 85-86): subprocess.run(check=True) raises on a non-zero exit.  *)
(***************************************************************************)
FallbackReturn(k) ==
    /\ pc[k] = "fallback"
    /\ procState[k] = "exited"
    /\ LET rec == processing_status[task_id[k]]
       IN processing_status' =
            [processing_status EXCEPT ![task_id[k]] =
               IF returncode[k] = 0
               THEN CompletedUpdate(rec, OutputPath(InputPath(k)))
               ELSE ErrorUpdate(rec, CalledProcessMsg(returncode[k]))]
    /\ pc' = [pc EXCEPT ![k] = IF returncode[k] = 0 THEN "cleanup"
                                ELSE AfterException]
    /\ resp' = NoResp
    /\ UNCHANGED <<task_id, duration, procVars, monitor, launches, uploads,
                   watermarked>>
    /\ last_line' = NoLine

(***************************************************************************)
(* The finally clause (main.py 248-251); the coroutine ends and the event  *)
(* loop is free again.                                                     *)
(***************************************************************************)
RemoveInput(files, k) == files \ {k}

Cleanup(k) ==
    /\ pc[k] = "cleanup"
    /\ uploads' = RemoveInput(uploads, k)
    /\ pc' = [pc EXCEPT ![k] = "done"]
    /\ resp' = NoResp
    /\ IF monitor[k] # "running"
       THEN /\ duration' = Dropped(duration, k, NoDuration)
            /\ returncode' = Dropped(returncode, k, NoCode)
       ELSE UNCHANGED <<duration, returncode>>
    /\ UNCHANGED <<processing_status, task_id, procState, outTodo, errTodo,
                   stdout, stderr, monitor, launches, watermarked>>
    /\ last_line' = NoLine

(***************************************************************************)
(* GET /status/{task_id} (main.py 109-129).                                *)
(***************************************************************************)
StatusResponse(i) ==
    IF ~HasRecord(i)
    THEN [kind |-> "status", id |-> i, code |-> 404]
    ELSE LET status == processing_status[i]
         IN [kind |-> "status", id |-> i, code |-> 200,
             status |-> status.status,
             progress |-> status.progress,
             has_error |-> status.status = "error" /\ "error" \in DOMAIN status,
             has_download |-> status.status = "completed"]

get_status(i) ==
    /\ LoopFree
    /\ resp' = StatusResponse(i)
    /\ UNCHANGED <<processing_status, pc, task_id, duration, procVars, monitor,
                   launches, uploads, watermarked>>
    /\ last_line' = NoLine

(***************************************************************************)
(* GET /download/{task_id} (main.py 131-151).                              *)
(***************************************************************************)
DownloadResponseNoStatusCheck(i) ==
    IF ~HasRecord(i)
    THEN [kind |-> "download", id |-> i, code |-> 404]
    ELSE [kind |-> "download", id |-> i, code |-> 200,
          file |-> processing_status[i].output_path]

DownloadResponse(i) ==
    IF ~HasRecord(i)
    THEN [kind |-> "download", id |-> i, code |-> 404]
    ELSE LET status == processing_status[i]
         IN IF status.status # "completed"
            THEN [kind |-> "download", id |-> i, code |-> 400]
            ELSE IF status.output_path[2] \notin watermarked
                 THEN [kind |-> "download", id |-> i, code |-> 404]
                 ELSE [kind |-> "download", id |-> i, code |-> 200,
                       file |-> status.output_path]

download_file(i) ==
    /\ LoopFree
    /\ resp' = DownloadResponse(i)
    /\ UNCHANGED <<processing_status, pc, task_id, duration, procVars, monitor,
                   launches, uploads, watermarked>>
    /\ last_line' = NoLine

Next ==
    \/ \E ct \in ContentTypes, ext \in Extensions : watermark_video_endpoint(ct, ext)
    \/ \E k \in Tasks : UploadSaved(k)
    \/ \E k \in Tasks : TaskStart(k)
    \/ \E k \in Tasks, d \in Durations, launched \in BOOLEAN,
          nOut \in 0..MaxLines, nErr \in 0..MaxErr :
            ProbeReturn(k, d, launched, nOut, nErr)
    \/ \E k \in Tasks : ProcWriteStdout(k)
    \/ \E k \in Tasks : ProcWriteStderr(k)
    \/ \E k \in Tasks, rc \in ExitCodes : ProcExit(k, rc)
    \/ \E k \in Tasks, line \in StdoutLines : MonitorLine(k, line)
    \/ \E k \in Tasks : MonitorEOF(k)
    \/ \E k \in Tasks : WaitReturn(k)
    \/ \E k \in Tasks : FallbackReturn(k)
    \/ \E k \in Tasks : Cleanup(k)
    \/ \E i \in Ids : get_status(i)
    \/ \E i \in Ids : download_file(i)

Spec == Init /\ [][Next]_vars

(***************************************************************************)
(* Fairness: the event loop runs a scheduled task and a runnable           *)
(* coroutine, the operating system runs a runnable thread and a process    *)
(* that is not blocked, and ffprobe returns.  Clients need not send        *)
(* anything.                                                               *)
(***************************************************************************)
Fairness ==
    \A k \in Tasks :
      /\ WF_vars(UploadSaved(k))
      /\ WF_vars(TaskStart(k))
      /\ WF_vars(\E d \in Durations, launched \in BOOLEAN,
                    nOut \in 0..MaxLines, nErr \in 0..MaxErr :
                      ProbeReturn(k, d, launched, nOut, nErr))
      /\ WF_vars(ProcWriteStdout(k))
      /\ WF_vars(ProcWriteStderr(k))
      /\ WF_vars(\E rc \in ExitCodes : ProcExit(k, rc))
      /\ WF_vars(\E line \in StdoutLines : MonitorLine(k, line))
      /\ WF_vars(MonitorEOF(k))
      /\ WF_vars(WaitReturn(k))
      /\ WF_vars(FallbackReturn(k))
      /\ WF_vars(Cleanup(k))

FairSpec == Spec /\ Fairness

(***************************************************************************)
(* Fairness of the fallback path alone (main.py 235-251, utils.py 85):     *)
(* ffmpeg, started without pipes, exits; subprocess.run then returns or    *)
(* raises; the finally clause runs.                                        *)
(***************************************************************************)
ToolExits ==
    \A k \in Tasks :
      /\ WF_vars(\E rc \in ExitCodes : ProcExit(k, rc))
      /\ WF_vars(FallbackReturn(k))
      /\ WF_vars(Cleanup(k))

FallbackSpec == Spec /\ ToolExits

(***************************************************************************)
(* Properties.                                                             *)
(***************************************************************************)
Rec(k) == processing_status[task_id[k]]
Submitted(k) == pc[k] \notin {"unsubmitted", "saving"}
\* the task is inside a call that returns only when an external process exits
BlockedOnSubprocess(k) ==
    \/ pc[k] = "probe"
    \/ pc[k] \in {"wait", "fallback"} /\ procState[k] = "running"

\* C1: a job's status changes only from processing to completed or to error;
\* a record, once in the store, stays, and a terminal status never changes.
C1_StatusMonotonic ==
    [][\A i \in DOMAIN processing_status :
         /\ i \in DOMAIN processing_status'
         /\ Terminal(processing_status[i].status)
              => processing_status'[i].status = processing_status[i].status
         /\ processing_status'[i].status # processing_status[i].status
              => /\ processing_status[i].status = "processing"
                 /\ Terminal(processing_status'[i].status)]_vars

\* one job has completed and stayed so while the other ran into an error
C1_Witness ==
    /\ pc[1] = "done" /\ pc[2] = "done"
    /\ Rec(1).status = "completed" /\ Rec(2).status = "error"
    /\ monitor[1] = "ended"

\* C2: while a job's status is processing, no step lowers its progress.
C2_ProgressNonDecreasing ==
    [][\A i \in DOMAIN processing_status :
         (processing_status[i].status = "processing"
            /\ processing_status'[i].status = "processing")
           => processing_status'[i].progress >= processing_status[i].progress]_vars

\* C3: a completed job has progress 100, in every state.
C3_CompletedPinned ==
    \A i \in DOMAIN processing_status :
      processing_status[i].status = "completed"
        => processing_status[i].progress = DoneProgress

\* C4: while the ffmpeg process of a job still runs and the monitor has
\* raised the progress above the floor, a status poll of the job can be served.
C4_PollWhileRunning ==
    \A k \in Tasks :
      (pc[k] = "wait" /\ procState[k] = "running"
         /\ Rec(k).progress > StartedProgress)
        => ENABLED get_status(task_id[k])

\* C5: whenever some task is blocked on ffprobe or ffmpeg, a poll can be
\* served, a new upload can be accepted, and an upload that is saved can get
\* its record and its job id.
C5_HandlersNeverWait ==
    \A k \in Tasks :
      BlockedOnSubprocess(k)
        => /\ \A i \in Ids : ENABLED get_status(i)
           /\ (\E j \in Tasks : pc[j] = "unsubmitted")
                => ENABLED watermark_video_endpoint("video/mp4", ".mp4")
           /\ \A j \in Tasks : pc[j] = "saving" => ENABLED UploadSaved(j)

\* C6: a task that has started ends with a terminal status and its input
\* file deleted.
C6_EventuallyTerminalAndCleaned ==
    \A k \in Tasks :
      (pc[k] = "probe")
        ~> (pc[k] = "done" /\ Terminal(Rec(k).status) /\ k \notin uploads)

\* C7: when a status poll or a download has just seen a job with a terminal
\* status, the input file of that job is gone.
C7_TerminalSeenAfterCleanup ==
    (resp.kind \in {"status", "download"} /\ HasRecord(resp.id)
       /\ Terminal(processing_status[resp.id].status))
      => \A k \in Tasks : task_id[k] = resp.id => k \notin uploads

\* a poll has returned status error
C7_Witness ==
    /\ resp.kind = "status" /\ resp.code = 200
    /\ resp.status = "error"
    /\ \E k \in Tasks : task_id[k] = resp.id /\ pc[k] = "done"

\* C8: output_path is set exactly in the records whose status is completed.
C8_OutputPathIffCompleted ==
    \A i \in DOMAIN processing_status :
      (processing_status[i].output_path # NoPath)
        <=> (processing_status[i].status = "completed")

\* one job is completed with its path, the other in error without one
C8_Witness ==
    /\ Submitted(1) /\ Submitted(2)
    /\ Rec(1).status = "error" /\ Rec(1).output_path = NoPath
    /\ Rec(2).status = "completed"
    /\ Rec(2).output_path = OutputPath(InputPath(2))

\* C9: the step that follows process.wait() sets, on exit code 0, status
\* completed, progress 100 and the output path of the command builder, and on
\* any other exit code status error with a message that holds the exit code
\* and all of the stderr output.
C9_ExitCodeDecides ==
    [][\A k \in Tasks :
         (pc[k] = "wait" /\ pc'[k] = "cleanup")
           => IF returncode[k] = 0
              THEN /\ processing_status'[task_id[k]].status = "completed"
                   /\ processing_status'[task_id[k]].progress = DoneProgress
                   /\ processing_status'[task_id[k]].output_path
                        = <<"watermarked", k>>
              ELSE /\ processing_status'[task_id[k]].status = "error"
                   /\ "error" \in DOMAIN processing_status'[task_id[k]]
                   /\ processing_status'[task_id[k]].error.code = returncode[k]
                   /\ processing_status'[task_id[k]].error.stderr = stderr[k]]_vars

\* the monitored path has ended in error after ffmpeg wrote to stderr
C9_Witness ==
    \E k \in Tasks :
      /\ pc[k] = "cleanup" /\ monitor[k] # "none" /\ returncode[k] = 1
      /\ Rec(k).status = "error"
      /\ Rec(k).error.what = "ffmpeg_exit" /\ Rec(k).error.stderr = PipeCap

\* C10: a record has the error key exactly when its status is error, and a
\* status response carries the error exactly when it reports error and the
\* download reference exactly when it reports completed.
C10_ErrorIffErrorStatus ==
    /\ \A i \in DOMAIN processing_status :
         ("error" \in DOMAIN processing_status[i])
           <=> (processing_status[i].status = "error")
    /\ (resp.kind = "status" /\ resp.code = 200)
         => /\ resp.has_error <=> (resp.status = "error")
            /\ resp.has_download <=> (resp.status = "completed")

\* polls have reported an error for one job while the other was completed
C10_Witness ==
    /\ resp.kind = "status" /\ resp.code = 200 /\ resp.has_error
    /\ \E i \in DOMAIN processing_status : processing_status[i].status = "completed"

\* C11: an upload is rejected with a client error exactly when its declared
\* type is no video type and its extension is not one of the video extensions;
\* a rejection changes neither the job store nor the uploads, gives out no
\* task id and schedules no task.
C11_RejectedExactlyWhenNotVideo ==
    [][/\ (resp'.kind = "submit" /\ resp'.code = 400)
            => /\ resp'.content_type \notin {"video/mp4"}
               /\ resp'.extension \notin
                    {".mp4", ".avi", ".mov", ".mkv", ".wmv", ".flv", ".webm"}
               /\ UNCHANGED <<processing_status, uploads, pc, task_id>>
       /\ resp'.kind = "accepted"
            => \/ resp'.content_type \in {"video/mp4"}
               \/ resp'.extension \in
                    {".mp4", ".avi", ".mov", ".mkv", ".wmv", ".flv", ".webm"}]_vars

\* a .txt upload declared text/plain was rejected while a job was in the store
C11_Witness ==
    /\ resp.kind = "submit" /\ resp.code = 400
    /\ resp.content_type = "text/plain" /\ resp.extension = ".txt"
    /\ DOMAIN processing_status # {}

\* C12: a download returns a file only for a job that is completed, and then
\* the file at its output_path; a poll or a download of an id that is not in
\* the store answers not found; a download of a job that is processing or in
\* error answers not ready.
C12_DownloadOnlyWhenCompleted ==
    /\ (resp.kind = "download" /\ resp.code = 200)
         => /\ HasRecord(resp.id)
            /\ processing_status[resp.id].status = "completed"
            /\ resp.file = processing_status[resp.id].output_path
    /\ (resp.kind \in {"status", "download"} /\ ~HasRecord(resp.id))
         => resp.code = 404
    /\ (resp.kind = "download" /\ HasRecord(resp.id)
          /\ processing_status[resp.id].status \in {"processing", "error"})
         => resp.code = 400

\* a download of a job in error was refused after another download was served
C12_Witness ==
    /\ resp.kind = "download" /\ resp.code = 400
    /\ processing_status[resp.id].status = "error"
    /\ \E i \in DOMAIN processing_status : processing_status[i].status = "completed"

\* C13: the task ids given out are pairwise distinct; when a submission
\* returns, its id has the record status processing, progress 0; the record
\* of a submitted job stays in the store, and a poll of its id finds it.
C13_IdsDistinctAndPollable ==
    /\ \A j, k \in Tasks :
         (j # k /\ task_id[j] # NoId /\ task_id[k] # NoId)
           => task_id[j] # task_id[k]
    /\ (resp.kind = "submit" /\ resp.code = 200)
         => /\ HasRecord(resp.task_id)
            /\ processing_status[resp.task_id].status = "processing"
            /\ processing_status[resp.task_id].progress = 0
    /\ \A k \in Tasks : Submitted(k) => HasRecord(task_id[k])
    /\ (resp.kind = "status"
          /\ \E k \in Tasks : Submitted(k) /\ task_id[k] = resp.id)
         => resp.code = 200

\* the second submission has returned its id after the first job was done,
\* and the first one can still be polled
C13_Witness ==
    /\ pc[1] = "done" /\ Submitted(2)
    /\ resp.kind = "status" /\ resp.code = 200 /\ resp.id = task_id[1]

\* C14: the progress the monitor writes for a marker line with a number,
\* negative ones included, is in [5, 95], and the progress of every job is in
\* [0, 100] in every state.
C14_ProgressInRange ==
    /\ \A k \in Tasks :
         (last_line.task = k /\ last_line.line.key = "out_time_ms"
            /\ last_line.line.numeric)
           => Rec(k).progress \in 5..95
    /\ \A i \in DOMAIN processing_status :
         processing_status[i].progress \in 0..100

C16_BadLineIgnored ==
    [][\A k \in Tasks :
         (last_line'.task = k
            /\ ~(last_line'.line.key = "out_time_ms" /\ last_line'.line.numeric))
           => /\ processing_status' = processing_status
              /\ monitor'[k] = "running"]_vars

\* the monitor has read a line without a number after a line with one took
\* effect, and more lines wait in the pipe
C16_Witness ==
    \E k \in Tasks :
      /\ last_line.task = k /\ last_line.line.key = "out_time_ms"
      /\ ~last_line.line.numeric
      /\ Rec(k).status = "processing" /\ Rec(k).progress = 50
      /\ stdout[k] > 0

\* C17: no step changes the progress of a job whose status is error.
C17_ErrorProgressFrozen ==
    [][\A i \in DOMAIN processing_status :
         processing_status[i].status = "error"
           => processing_status'[i].progress = processing_status[i].progress]_vars

\* C18: when the probe returns no value no monitor is started and the task
\* blocks in the fallback, or the launch fails and the job is in error; on the
\* fallback path no line is read and the progress stays 5 until the tool
\* exits; the step that leaves the fallback makes the job completed with
\* progress 100 on exit code 0 and error otherwise; the fallback is always
\* left.
C18_FallbackPath ==
    /\ [][\A k \in Tasks :
            /\ (pc[k] = "probe" /\ pc'[k] # "probe" /\ ~duration'[k].some)
                 => /\ monitor'[k] = "none"
                    /\ stdout'[k] = 0 /\ outTodo'[k] = 0
                    /\ Rec(k)'.progress = 5
                    /\ \/ pc'[k] = "fallback" /\ Rec(k)'.status = "processing"
                       \/ pc'[k] = "cleanup" /\ Rec(k)'.status = "error"
            /\ (pc[k] = "fallback" /\ pc'[k] = "fallback")
                 => /\ Rec(k)' = Rec(k)
                    /\ last_line'.task # k
            /\ (pc[k] = "fallback" /\ pc'[k] # "fallback")
                 => /\ procState[k] = "exited"
                    /\ pc'[k] = "cleanup"
                    /\ IF returncode[k] = 0
                       THEN Rec(k)'.status = "completed" /\ Rec(k)'.progress = 100
                       ELSE Rec(k)'.status = "error" /\ Rec(k)'.progress = 5]_vars
    /\ [](\A k \in Tasks :
            /\ pc[k] = "fallback"
                 => /\ monitor[k] = "none"
                    /\ Rec(k).status = "processing" /\ Rec(k).progress = 5
            /\ (monitor[k] = "none" /\ Submitted(k))
                 => /\ Rec(k).progress \in {0, 5, 100}
                    /\ Rec(k).progress = 100 <=> Rec(k).status = "completed")
    /\ \A k \in Tasks :
         (pc[k] = "fallback") ~> (pc[k] = "done" /\ Rec(k).status \in {"completed", "error"})

\* the job of a task whose probe returned no value is completed with 100
C18_Witness ==
    \E k \in Tasks :
      /\ pc[k] = "cleanup" /\ monitor[k] = "none" /\ ~duration[k].some
      /\ launches[k] = 1
      /\ Rec(k).status = "completed" /\ Rec(k).progress = 100

\* C19: a task launches at most one subprocess, and only when the probe
\* returns; the monitored path and the fallback path never follow one another;
\* a job in error belongs to a task past its try block, which never launches
\* again.
C19_SingleLaunch ==
    /\ [](\A k \in Tasks :
            /\ launches[k] <= 1
            /\ (Submitted(k) /\ Rec(k).status = "error")
                 => pc[k] \in {"cleanup", "done"}
            /\ pc[k] = "fallback" => monitor[k] = "none"
            /\ pc[k] = "wait" => monitor[k] # "none")
    /\ [][\A k \in Tasks :
            /\ launches'[k] # launches[k]
                 => pc[k] = "probe" /\ launches'[k] = launches[k] + 1
            /\ pc[k] = "wait" => pc'[k] \in {"wait", "cleanup"}
            /\ pc[k] = "fallback" => pc'[k] \in {"fallback", "cleanup"}
            /\ pc[k] = "cleanup" => pc'[k] \in {"cleanup", "done"}
            /\ pc[k] = "done" => pc'[k] = "done"]_vars

\* both tasks have failed after their one launch, one on each path
C19_Witness ==
    \E k, m \in Tasks :
      /\ pc[k] = "done" /\ pc[m] = "done"
      /\ launches[k] = 1 /\ launches[m] = 1
      /\ Rec(k).status = "error" /\ Rec(m).status = "error"
      /\ monitor[k] = "none" /\ monitor[m] = "ended"

\* C20: a monitor runs only for a duration that is a number other than 0, so
\* every line it reads is divided by a non-zero duration; a probe that
\* returns 0 starts no monitor and takes the fallback path.
C20_NoZeroDivision ==
    /\ [](\A k \in Tasks :
            monitor[k] = "running" => duration[k].some /\ duration[k].secs # 0)
    /\ [][\A k \in Tasks :
            /\ last_line'.task = k => duration[k].some /\ duration[k].secs # 0
            /\ (pc[k] = "probe" /\ pc'[k] # "probe"
                   /\ duration'[k].some /\ duration'[k].secs = 0)
                 => /\ monitor'[k] = "none"
                    /\ pc'[k] \in {"fallback", "cleanup"}]_vars

\* the probe returned 0 and the task is in the fallback
C20_Witness ==
    \E k \in Tasks :
      /\ pc[k] = "fallback" /\ duration[k].some /\ duration[k].secs = 0
      /\ monitor[k] = "none" /\ procState[k] = "running"
====
